---- MODULE Spec2Model ----
(***************************************************************************)
(* Atomic chess: the two rules engines of the repository, ChessVar         *)
(* (ChessVar.py) and AtomicChessGame (chess_logic.py), as one state        *)
(* machine whose only operation is make_move.                              *)
(*                                                                         *)
(* A game is the triple (board, game_state, current_player).  The board is *)
(* a list of 8 rows of 8 integers, indexed from 0 as in the source.  A     *)
(* call make_move(square_moved_from, square_moved_to) takes two strings of *)
(* algebraic notation; a string is modelled by the pair of its two         *)
(* characters.                                                             *)
(***************************************************************************)
EXTENDS Integers, Sequences, FiniteSets, TLC

(***************************************************************************)
(* Piece constants (ChessVar.py 3-15, chess_logic.py 5-17).                *)
(***************************************************************************)
EMPTY_SQUARE == 0
BR == 1
BH == 2
BB == 3
BQ == 4
BK == 5
BP == 6
WR == 10
WH == 20
WB == 30
WQ == 40
WK == 50
WP == 60

(* Game constants of chess_logic.py 20-38. *)
BOARD_SIZE == 8
BLACK_KING_VALUE == 5
WHITE_KING_VALUE == 50
BLACK_PIECE_THRESHOLD == 6
WHITE_PIECE_MIN == 10
BLACK_PAWN_START_ROW == 1
WHITE_PAWN_START_ROW == 6

GAME_UNFINISHED == "UNFINISHED"
GAME_WHITE_WON == "WHITE_WON"
GAME_BLACK_WON == "BLACK_WON"
PLAYER_WHITE == "WHITE"
PLAYER_BLACK == "BLACK"

(***************************************************************************)
(* Bounds of the exploration.  A run is a prefix of one of the game lines  *)
(* of Lines, followed by at most MaxFree further successful calls with     *)
(* arbitrary squares; at most MaxRejected rejected calls are followed.     *)
(***************************************************************************)
MaxFree == 1
MaxRejected == 1

Idx == 0 .. (BOARD_SIZE - 1)
Coords == Idx \X Idx

abs(x) == IF x < 0 THEN -x ELSE x

(***************************************************************************)
(* The starting boards.  Rows and columns are 0-based.  ChessVar.__init__  *)
(* writes the board with integer literals, AtomicChessGame.__init__ with   *)
(* the named piece constants.                                              *)
(***************************************************************************)
Row0(s) == [c \in Idx |-> s[c + 1]]

(* The ChessVar board with the White King and Queen exchanged. *)
CV_StartBoard_swapped ==
    [r \in Idx |->
        CASE r = 0 -> Row0(<<1, 2, 3, 4, 5, 3, 2, 1>>)
          [] r = 1 -> Row0(<<6, 6, 6, 6, 6, 6, 6, 6>>)
          [] r = 6 -> Row0(<<60, 60, 60, 60, 60, 60, 60, 60>>)
          [] r = 7 -> Row0(<<10, 20, 30, 50, 40, 30, 20, 10>>)
          [] OTHER -> Row0(<<0, 0, 0, 0, 0, 0, 0, 0>>)]

CV_StartBoard ==
    [r \in Idx |->
        CASE r = 0 -> Row0(<<1, 2, 3, 4, 5, 3, 2, 1>>)
          [] r = 1 -> Row0(<<6, 6, 6, 6, 6, 6, 6, 6>>)
          [] r = 6 -> Row0(<<60, 60, 60, 60, 60, 60, 60, 60>>)
          [] r = 7 -> Row0(<<10, 20, 30, 40, 50, 30, 20, 10>>)
          [] OTHER -> Row0(<<0, 0, 0, 0, 0, 0, 0, 0>>)]

StartBoard ==
    [r \in Idx |->
        CASE r = 0 -> Row0(<<BR, BH, BB, BQ, BK, BB, BH, BR>>)
          [] r = 1 -> Row0(<<BP, BP, BP, BP, BP, BP, BP, BP>>)
          [] r = 6 -> Row0(<<WP, WP, WP, WP, WP, WP, WP, WP>>)
          [] r = 7 -> Row0(<<WR, WH, WB, WQ, WK, WB, WH, WR>>)
          [] OTHER -> [c \in Idx |-> EMPTY_SQUARE]]

(***************************************************************************)
(* Python list indexing on a list of 8 items: an index in -8..-1 counts    *)
(* from the end, an index outside -8..7 raises IndexError.                 *)
(***************************************************************************)
PyIndexOk(i) == i >= -BOARD_SIZE /\ i < BOARD_SIZE
PyIndex(i) == IF i < 0 THEN i + BOARD_SIZE ELSE i

(***************************************************************************)
(* Algebraic notation.  ord(ch) - ord('a') and int(ch) of the source,      *)
(* character by character.                                                 *)
(***************************************************************************)
Files == {"a", "b", "c", "d", "e", "f", "g", "h"}
Ranks == {"1", "2", "3", "4", "5", "6", "7", "8"}
Squares == Files \X Ranks

ord(ch) ==
    CASE ch = "a" -> 97 [] ch = "b" -> 98 [] ch = "c" -> 99 [] ch = "d" -> 100
      [] ch = "e" -> 101 [] ch = "f" -> 102 [] ch = "g" -> 103 [] ch = "h" -> 104

int(ch) ==
    CASE ch = "1" -> 1 [] ch = "2" -> 2 [] ch = "3" -> 3 [] ch = "4" -> 4
      [] ch = "5" -> 5 [] ch = "6" -> 6 [] ch = "7" -> 7 [] ch = "8" -> 8

(* parse_square_notation reading the rank digit as the row index. *)
parse_square_notation_rank_as_row(square) ==
    <<int(square[2]) - 1, ord(square[1]) - ord("a")>>

(* <<row, column>> of a square string. *)
parse_square_notation(square) ==
    <<BOARD_SIZE - int(square[2]), ord(square[1]) - ord("a")>>

(***************************************************************************)
(* The while loops of the path checks: walk from (row, col) by (srow,      *)
(* scol) until the watched coordinate (the row when byRow, else the        *)
(* column) equals the destination's; FALSE at the first non-empty square.  *)
(***************************************************************************)
RECURSIVE walk(_, _, _, _, _, _, _)
walk(board, row, col, srow, scol, stop, byRow) ==
    IF (IF byRow THEN row ELSE col) = stop
    THEN TRUE
    ELSE IF board[row][col] # 0
         THEN FALSE
         ELSE walk(board, row + srow, col + scol, srow, scol, stop, byRow)

(* The eight offsets of the explosion, and the nine of the double-kill guard. *)
positions8 ==
    {<<1, 0>>, <<-1, 0>>, <<0, 1>>, <<0, -1>>, <<1, 1>>, <<1, -1>>, <<-1, 1>>, <<-1, -1>>}
positions9 == positions8 \cup {<<0, 0>>}

(***************************************************************************)
(*                              ChessVar                                   *)
(* Every check returns FALSE where the source returns False, and TRUE      *)
(* where it falls off the end (returns None, which `is False` lets pass).  *)
(***************************************************************************)
CV_check_if_valid_player(current_player, piece) ==
    /\ ~(current_player = "BLACK" /\ piece > 6)
    /\ ~(current_player = "WHITE" /\ piece < 10)

(* The pieces read by the guard's try/except loop (negative indices wrap). *)
CV_pieces_list(board, destination_column, destination_row) ==
    {board[PyIndex(destination_row + o[1])][PyIndex(destination_column + o[2])] :
        o \in {p \in positions9 : /\ PyIndexOk(destination_row + p[1])
                                  /\ PyIndexOk(destination_column + p[2])}}

(* King not allowed to make captures (82-83). *)
CV_king_capture(board, piece, destination_column, destination_row) ==
    piece \in {BK, WK} /\ board[destination_row][destination_column] # 0

(* Player cannot blow up both kings at once (86-95). *)
CV_double_kill(board, destination_column, destination_row) ==
    /\ board[destination_row][destination_column] # 0
    /\ 5 \in CV_pieces_list(board, destination_column, destination_row)
    /\ 50 \in CV_pieces_list(board, destination_column, destination_row)

CV_check_if_valid_atomic_move(board, piece, destination_column, destination_row) ==
    /\ ~CV_king_capture(board, piece, destination_column, destination_row)
    /\ ~CV_double_kill(board, destination_column, destination_row)

CV_check_horizontal_vertical_move(board, current_column, current_row, destination_column, destination_row) ==
    IF current_row = destination_row /\ current_column < destination_column
    THEN walk(board, current_row, current_column + 1, 0, 1, destination_column, FALSE)
    ELSE IF current_row = destination_row /\ current_column > destination_column
    THEN walk(board, current_row, current_column - 1, 0, -1, destination_column, FALSE)
    ELSE IF current_column = destination_column /\ current_row > destination_row
    THEN walk(board, current_row - 1, current_column, -1, 0, destination_row, TRUE)
    ELSE IF current_column = destination_column /\ current_row < destination_row
    THEN walk(board, current_row + 1, current_column, 1, 0, destination_row, TRUE)
    ELSE TRUE

(* check_diagonal_move without the loop of its first branch (bottom to top,
   to right). *)
CV_check_diagonal_move_one_blind(board, current_column, current_row, destination_column, destination_row) ==
    IF current_row > destination_row /\ current_column < destination_column
    THEN TRUE
    ELSE IF current_row > destination_row /\ current_column > destination_column
    THEN walk(board, current_row - 1, current_column - 1, -1, -1, destination_row, TRUE)
    ELSE IF current_row < destination_row /\ current_column < destination_column
    THEN walk(board, current_row + 1, current_column + 1, 1, 1, destination_row, TRUE)
    ELSE IF current_row < destination_row /\ current_column > destination_column
    THEN walk(board, current_row + 1, current_column - 1, 1, -1, destination_row, TRUE)
    ELSE TRUE

CV_check_diagonal_move(board, current_column, current_row, destination_column, destination_row) ==
    IF current_row > destination_row /\ current_column < destination_column
    THEN walk(board, current_row - 1, current_column + 1, -1, 1, destination_row, TRUE)
    ELSE IF current_row > destination_row /\ current_column > destination_column
    THEN walk(board, current_row - 1, current_column - 1, -1, -1, destination_row, TRUE)
    ELSE IF current_row < destination_row /\ current_column < destination_column
    THEN walk(board, current_row + 1, current_column + 1, 1, 1, destination_row, TRUE)
    ELSE IF current_row < destination_row /\ current_column > destination_column
    THEN walk(board, current_row + 1, current_column - 1, 1, -1, destination_row, TRUE)
    ELSE TRUE

(* `piece in self._board[r]`: some square of row r holds that piece value. *)
InRow(board, r, piece) == \E c \in Idx : board[r][c] = piece

CV_check_if_valid_chess_move(board, piece, current_column, current_row, destination_column, destination_row) ==
    LET row_distance == abs(current_row - destination_row)
        column_distance == abs(current_column - destination_column)
        target == board[destination_row][destination_column]
    IN  /\ ~(destination_column > 7 \/ destination_row < 0)
        /\ ~(piece < 10 /\ 0 < target /\ target < 10)
        /\ ~(piece >= 10 /\ target >= 10)
        /\ ~(/\ piece \in {BR, WR}
             /\ current_row # destination_row
             /\ current_column # destination_column)
        /\ (piece \in {BR, WR} =>
                CV_check_horizontal_vertical_move(board, current_column, current_row,
                                                  destination_column, destination_row))
        /\ ~(/\ piece \in {BH, WH}
             /\ <<row_distance, column_distance>> \notin {<<1, 2>>, <<2, 1>>})
        /\ ~(piece \in {BB, WB} /\ row_distance # column_distance)
        /\ (piece \in {BB, WB} =>
                CV_check_diagonal_move(board, current_column, current_row,
                                       destination_column, destination_row))
        /\ (piece \in {BQ, WQ} =>
                /\ (\/ row_distance = column_distance
                    \/ current_row = destination_row
                    \/ current_column = destination_column)
                /\ ((current_row = destination_row \/ current_column = destination_column) =>
                        CV_check_horizontal_vertical_move(board, current_column, current_row,
                                                          destination_column, destination_row))
                /\ (row_distance = column_distance =>
                        CV_check_diagonal_move(board, current_column, current_row,
                                               destination_column, destination_row)))
        /\ ~(piece \in {BK, WK} /\ (row_distance > 1 \/ column_distance > 1))
        /\ ~(piece = BP /\ current_row >= destination_row)
        /\ ~(piece = WP /\ current_row <= destination_row)
        /\ ~(piece \in {BP, WP} /\ target = 0 /\ current_column # destination_column)
        /\ ~(piece \in {BP, WP} /\ target # 0 /\ current_column = destination_column)
        /\ IF piece \in {BP, WP} /\ (InRow(board, 1, piece) \/ InRow(board, 6, piece))
           THEN ~(row_distance > 2)
           ELSE IF /\ piece \in {BP, WP}
                   /\ ~InRow(board, 1, piece)
                   /\ ~InRow(board, 6, piece)
           THEN ~(row_distance > 1)
           ELSE TRUE

(***************************************************************************)
(* The explosion loop of ChessVar.make_move (297-303): each offset reads   *)
(* and writes self._board[destination_row + row][destination_column +      *)
(* column] with Python indexing; an IndexError skips the offset.           *)
(***************************************************************************)
CV_explode(board, destination_column, destination_row) ==
    LET hit == {<<PyIndex(destination_row + p[1]), PyIndex(destination_column + p[2])>> :
                   p \in {q \in positions8 : /\ PyIndexOk(destination_row + q[1])
                                             /\ PyIndexOk(destination_column + q[2])}}
    IN  [r \in Idx |-> [c \in Idx |->
            IF <<r, c>> \in hit /\ board[r][c] \notin {BP, WP} THEN 0 ELSE board[r][c]]]

(* check_if_king_dead with the two outcomes exchanged. *)
CV_check_if_king_dead_swapped(board, game_state) ==
    IF ~(\E r \in Idx : InRow(board, r, 5))
    THEN "BLACK_WON"
    ELSE IF ~(\E r \in Idx : InRow(board, r, 50))
    THEN "WHITE_WON"
    ELSE game_state

CV_check_if_king_dead(board, game_state) ==
    IF ~(\E r \in Idx : InRow(board, r, 5))
    THEN "WHITE_WON"
    ELSE IF ~(\E r \in Idx : InRow(board, r, 50))
    THEN "BLACK_WON"
    ELSE game_state

CV_update_current_player(current_player) ==
    IF current_player = "WHITE" THEN "BLACK" ELSE "WHITE"

(* CV_accepts without the game-state test of 290-291. *)
CV_accepts_no_state_check(g, piece, current_column, current_row, destination_column, destination_row) ==
    /\ CV_check_if_valid_player(g.current_player, piece)
    /\ CV_check_if_valid_atomic_move(g.board, piece, destination_column, destination_row)
    /\ CV_check_if_valid_chess_move(g.board, piece, current_column, current_row,
                                    destination_column, destination_row)

(* Whether make_move gets past its four early returns (280-291). *)
CV_accepts(g, piece, current_column, current_row, destination_column, destination_row) ==
    /\ CV_check_if_valid_player(g.current_player, piece)
    /\ CV_check_if_valid_atomic_move(g.board, piece, destination_column, destination_row)
    /\ CV_check_if_valid_chess_move(g.board, piece, current_column, current_row,
                                    destination_column, destination_row)
    /\ g.game_state = "UNFINISHED"

(* CV_mutate with the capturing piece put on the destination, as in chess. *)
CV_mutate_keep_mover(board, piece, current_column, current_row, destination_column, destination_row) ==
    LET b1 == [board EXCEPT ![current_row][current_column] = 0]
    IN  IF b1[destination_row][destination_column] # 0
        THEN [CV_explode([b1 EXCEPT ![destination_row][destination_column] = 0],
                         destination_column, destination_row)
                 EXCEPT ![destination_row][destination_column] = piece]
        ELSE [b1 EXCEPT ![destination_row][destination_column] = piece]

(* CV_mutate with the source square of a King left as it was. *)
CV_mutate_king_stays(board, piece, current_column, current_row, destination_column, destination_row) ==
    LET b1 == IF piece \in {5, 50}
              THEN board
              ELSE [board EXCEPT ![current_row][current_column] = 0]
    IN  IF b1[destination_row][destination_column] # 0
        THEN CV_explode([b1 EXCEPT ![destination_row][destination_column] = 0],
                        destination_column, destination_row)
        ELSE [b1 EXCEPT ![destination_row][destination_column] = piece]

(* The board after the mutation of make_move (294-305). *)
CV_mutate(board, piece, current_column, current_row, destination_column, destination_row) ==
    LET b1 == [board EXCEPT ![current_row][current_column] = 0]
    IN  IF b1[destination_row][destination_column] # 0
        THEN CV_explode([b1 EXCEPT ![destination_row][destination_column] = 0],
                        destination_column, destination_row)
        ELSE [b1 EXCEPT ![destination_row][destination_column] = piece]

(* CV_make_move with the player switched before the move is validated. *)
CV_make_move_switch_first(g, square_moved_from, square_moved_to) ==
    LET current_column == ord(square_moved_from[1]) - ord("a")
        current_row == 8 - int(square_moved_from[2])
        piece == g.board[current_row][current_column]
        destination_column == ord(square_moved_to[1]) - ord("a")
        destination_row == 8 - int(square_moved_to[2])
    IN  IF ~CV_accepts(g, piece, current_column, current_row,
                       destination_column, destination_row)
        THEN [board |-> g.board, game_state |-> g.game_state,
              current_player |-> CV_update_current_player(g.current_player),
              ret |-> FALSE]
        ELSE LET b == CV_mutate(g.board, piece, current_column, current_row,
                                destination_column, destination_row)
             IN  [board |-> b,
                  game_state |-> CV_check_if_king_dead(b, g.game_state),
                  current_player |-> CV_update_current_player(g.current_player),
                  ret |-> TRUE]

(* make_move on the game g: the game after the call, and the value returned. *)
CV_make_move(g, square_moved_from, square_moved_to) ==
    LET current_column == ord(square_moved_from[1]) - ord("a")
        current_row == 8 - int(square_moved_from[2])
        piece == g.board[current_row][current_column]
        destination_column == ord(square_moved_to[1]) - ord("a")
        destination_row == 8 - int(square_moved_to[2])
    IN  IF ~CV_accepts(g, piece, current_column, current_row,
                       destination_column, destination_row)
        THEN [board |-> g.board, game_state |-> g.game_state,
              current_player |-> g.current_player, ret |-> FALSE]
        ELSE LET b == CV_mutate(g.board, piece, current_column, current_row,
                                destination_column, destination_row)
             IN  [board |-> b,
                  game_state |-> CV_check_if_king_dead(b, g.game_state),
                  current_player |-> CV_update_current_player(g.current_player),
                  ret |-> TRUE]

(***************************************************************************)
(*                           AtomicChessGame                               *)
(***************************************************************************)
ACG_check_if_valid_player(current_player, piece) ==
    /\ ~(current_player = PLAYER_BLACK /\ piece > BLACK_PIECE_THRESHOLD)
    /\ ~(current_player = PLAYER_WHITE /\ piece < WHITE_PIECE_MIN)

(* The pieces read by the guard's try/except loop (negative indices wrap). *)
ACG_pieces_list(board, destination_column, destination_row) ==
    {board[PyIndex(destination_row + o[1])][PyIndex(destination_column + o[2])] :
        o \in {p \in positions9 : /\ PyIndexOk(destination_row + p[1])
                                  /\ PyIndexOk(destination_column + p[2])}}

(* The King test applied to the Black King only. *)
ACG_king_capture_black_only(board, piece, destination_column, destination_row) ==
    /\ piece = BLACK_KING_VALUE
    /\ board[destination_row][destination_column] # EMPTY_SQUARE

(* King not allowed to make captures (248-252). *)
ACG_king_capture(board, piece, destination_column, destination_row) ==
    /\ piece \in {BLACK_KING_VALUE, WHITE_KING_VALUE}
    /\ board[destination_row][destination_column] # EMPTY_SQUARE

(* ACG_double_kill with the offsets (1, 0) and (-1, 0) missing from positions. *)
ACG_double_kill_no_vertical(board, destination_column, destination_row) ==
    LET pieces_list ==
            {board[PyIndex(destination_row + o[1])][PyIndex(destination_column + o[2])] :
                o \in {p \in positions9 \ {<<1, 0>>, <<-1, 0>>} :
                          /\ PyIndexOk(destination_row + p[1])
                          /\ PyIndexOk(destination_column + p[2])}}
    IN  /\ board[destination_row][destination_column] # EMPTY_SQUARE
        /\ BLACK_KING_VALUE \in pieces_list
        /\ WHITE_KING_VALUE \in pieces_list

(* Player cannot blow up both kings at once (255-276). *)
ACG_double_kill(board, destination_column, destination_row) ==
    /\ board[destination_row][destination_column] # EMPTY_SQUARE
    /\ BLACK_KING_VALUE \in ACG_pieces_list(board, destination_column, destination_row)
    /\ WHITE_KING_VALUE \in ACG_pieces_list(board, destination_column, destination_row)

ACG_check_if_valid_atomic_move(board, piece, destination_column, destination_row) ==
    /\ ~ACG_king_capture(board, piece, destination_column, destination_row)
    /\ ~ACG_double_kill(board, destination_column, destination_row)

ACG_check_horizontal_vertical_move(board, current_column, current_row, destination_column, destination_row) ==
    IF current_row = destination_row /\ current_column < destination_column
    THEN walk(board, current_row, current_column + 1, 0, 1, destination_column, FALSE)
    ELSE IF current_row = destination_row /\ current_column > destination_column
    THEN walk(board, current_row, current_column - 1, 0, -1, destination_column, FALSE)
    ELSE IF current_column = destination_column /\ current_row > destination_row
    THEN walk(board, current_row - 1, current_column, -1, 0, destination_row, TRUE)
    ELSE IF current_column = destination_column /\ current_row < destination_row
    THEN walk(board, current_row + 1, current_column, 1, 0, destination_row, TRUE)
    ELSE TRUE

ACG_check_diagonal_move(board, current_column, current_row, destination_column, destination_row) ==
    IF current_row > destination_row /\ current_column < destination_column
    THEN walk(board, current_row - 1, current_column + 1, -1, 1, destination_row, TRUE)
    ELSE IF current_row > destination_row /\ current_column > destination_column
    THEN walk(board, current_row - 1, current_column - 1, -1, -1, destination_row, TRUE)
    ELSE IF current_row < destination_row /\ current_column < destination_column
    THEN walk(board, current_row + 1, current_column + 1, 1, 1, destination_row, TRUE)
    ELSE IF current_row < destination_row /\ current_column > destination_column
    THEN walk(board, current_row + 1, current_column - 1, 1, -1, destination_row, TRUE)
    ELSE TRUE

(* _validate_standard_move with the bounds test only. *)
ACG_validate_standard_move_bounds_only(board, piece, current_column, current_row, destination_column, destination_row) ==
    ~(\/ destination_column < 0
      \/ destination_column >= BOARD_SIZE
      \/ destination_row < 0
      \/ destination_row >= BOARD_SIZE)

ACG_validate_standard_move(board, piece, current_column, current_row, destination_column, destination_row) ==
    /\ ~(\/ destination_column < 0
         \/ destination_column >= BOARD_SIZE
         \/ destination_row < 0
         \/ destination_row >= BOARD_SIZE)
    /\ LET target_piece == board[destination_row][destination_column]
       IN  /\ ~(/\ piece < WHITE_PIECE_MIN
                /\ EMPTY_SQUARE < target_piece
                /\ target_piece < WHITE_PIECE_MIN)
           /\ ~(piece >= WHITE_PIECE_MIN /\ target_piece >= WHITE_PIECE_MIN)

(* _is_valid_rook_move without the path check. *)
ACG_is_valid_rook_move_no_path(board, current_column, current_row, destination_column, destination_row) ==
    ~(current_row # destination_row /\ current_column # destination_column)

ACG_is_valid_rook_move(board, current_column, current_row, destination_column, destination_row) ==
    IF current_row # destination_row /\ current_column # destination_column
    THEN FALSE
    ELSE ACG_check_horizontal_vertical_move(board, current_column, current_row,
                                            destination_column, destination_row)

(* _is_valid_bishop_move without the path check. *)
ACG_is_valid_bishop_move_no_path(board, current_column, current_row, destination_column, destination_row) ==
    abs(destination_row - current_row) = abs(destination_column - current_column)

ACG_is_valid_bishop_move(board, current_column, current_row, destination_column, destination_row) ==
    LET row_distance == abs(destination_row - current_row)
        column_distance == abs(destination_column - current_column)
    IN  IF row_distance # column_distance
        THEN FALSE
        ELSE ACG_check_diagonal_move(board, current_column, current_row,
                                     destination_column, destination_row)

(* _is_valid_queen_move with the Rook rule only. *)
ACG_is_valid_queen_move_rook_only(board, current_column, current_row, destination_column, destination_row) ==
    ACG_is_valid_rook_move(board, current_column, current_row,
                           destination_column, destination_row)

ACG_is_valid_queen_move(board, current_column, current_row, destination_column, destination_row) ==
    \/ ACG_is_valid_rook_move(board, current_column, current_row,
                              destination_column, destination_row)
    \/ ACG_is_valid_bishop_move(board, current_column, current_row,
                                destination_column, destination_row)

(* _is_valid_king_move with the row distance tested only. *)
ACG_is_valid_king_move_row_only(current_column, current_row, destination_column, destination_row) ==
    LET row_distance == abs(destination_row - current_row)
        column_distance == abs(destination_column - current_column)
    IN  row_distance <= 1 /\ (row_distance + column_distance) > 0

ACG_is_valid_king_move(current_column, current_row, destination_column, destination_row) ==
    LET row_distance == abs(destination_row - current_row)
        column_distance == abs(destination_column - current_column)
    IN  row_distance <= 1 /\ column_distance <= 1 /\ (row_distance + column_distance) > 0

(* _is_valid_knight_move accepting two rows and one column only. *)
ACG_is_valid_knight_move_tall_only(current_column, current_row, destination_column, destination_row) ==
    LET row_distance == abs(destination_row - current_row)
        column_distance == abs(destination_column - current_column)
    IN  row_distance = 2 /\ column_distance = 1

ACG_is_valid_knight_move(current_column, current_row, destination_column, destination_row) ==
    LET row_distance == abs(destination_row - current_row)
        column_distance == abs(destination_column - current_column)
    IN  \/ (row_distance = 2 /\ column_distance = 1)
        \/ (row_distance = 1 /\ column_distance = 2)

(* _is_valid_pawn_move without the two-row advance from the starting row. *)
ACG_is_valid_pawn_move_single_step(board, piece, current_column, current_row, destination_column, destination_row) ==
    LET row_distance == abs(destination_row - current_row)
        column_distance == abs(destination_column - current_column)
        target_piece == board[destination_row][destination_column]
    IN  IF piece = BP /\ current_row >= destination_row THEN FALSE
        ELSE IF piece = WP /\ current_row <= destination_row THEN FALSE
        ELSE IF column_distance = 1
             THEN (IF target_piece = EMPTY_SQUARE THEN FALSE ELSE row_distance = 1)
        ELSE IF current_column = destination_column
             THEN (IF target_piece # EMPTY_SQUARE THEN FALSE ELSE row_distance = 1)
        ELSE FALSE

ACG_is_valid_pawn_move(board, piece, current_column, current_row, destination_column, destination_row) ==
    LET row_distance == abs(destination_row - current_row)
        column_distance == abs(destination_column - current_column)
        target_piece == board[destination_row][destination_column]
    IN  IF piece = BP /\ current_row >= destination_row THEN FALSE
        ELSE IF piece = WP /\ current_row <= destination_row THEN FALSE
        ELSE IF column_distance = 1
             THEN (IF target_piece = EMPTY_SQUARE THEN FALSE ELSE row_distance = 1)
        ELSE IF current_column = destination_column
             THEN IF target_piece # EMPTY_SQUARE THEN FALSE
                  ELSE IF /\ piece = BP
                          /\ current_row = BLACK_PAWN_START_ROW
                          /\ row_distance <= 2
                       THEN TRUE
                  ELSE IF /\ piece = WP
                          /\ current_row = WHITE_PAWN_START_ROW
                          /\ row_distance <= 2
                       THEN TRUE
                  ELSE row_distance = 1
        ELSE FALSE

is_valid_position(row, column) ==
    0 <= row /\ row < BOARD_SIZE /\ 0 <= column /\ column < BOARD_SIZE

(* The nine squares of explosion_positions (600-610) that pass the bounds check. *)
ACG_explosion_positions(explosion_row, explosion_column) ==
    {p \in {<<explosion_row + o[1], explosion_column + o[2]>> : o \in positions9} :
        is_valid_position(p[1], p[2])}

(* ACG_execute_atomic_explosion without the exemption of pawns. *)
ACG_execute_atomic_explosion_all(board, explosion_row, explosion_column) ==
    [r \in Idx |-> [c \in Idx |->
        IF <<r, c>> \in ACG_explosion_positions(explosion_row, explosion_column)
        THEN EMPTY_SQUARE
        ELSE board[r][c]]]

ACG_execute_atomic_explosion(board, explosion_row, explosion_column) ==
    [r \in Idx |-> [c \in Idx |->
        IF /\ <<r, c>> \in ACG_explosion_positions(explosion_row, explosion_column)
           /\ board[r][c] \notin {BP, WP, EMPTY_SQUARE}
        THEN EMPTY_SQUARE
        ELSE board[r][c]]]

(* The piece-specific movement rules of validate_move (659-685). *)
ACG_piece_rules(board, piece, current_row, current_column, destination_row, destination_column) ==
    IF piece \in {BR, WR}
    THEN ACG_is_valid_rook_move(board, current_column, current_row,
                                destination_column, destination_row)
    ELSE IF piece \in {BB, WB}
    THEN ACG_is_valid_bishop_move(board, current_column, current_row,
                                  destination_column, destination_row)
    ELSE IF piece \in {BQ, WQ}
    THEN ACG_is_valid_queen_move(board, current_column, current_row,
                                 destination_column, destination_row)
    ELSE IF piece \in {BK, WK}
    THEN ACG_is_valid_king_move(current_column, current_row,
                                destination_column, destination_row)
    ELSE IF piece \in {BH, WH}
    THEN ACG_is_valid_knight_move(current_column, current_row,
                                  destination_column, destination_row)
    ELSE IF piece \in {BP, WP}
    THEN ACG_is_valid_pawn_move(board, piece, current_column, current_row,
                                destination_column, destination_row)
    ELSE FALSE

ACG_validate_move(g, piece, current_row, current_column, destination_row, destination_column) ==
    IF ~ACG_validate_standard_move(g.board, piece, current_column, current_row,
                                   destination_column, destination_row)
    THEN FALSE
    ELSE IF piece = EMPTY_SQUARE THEN FALSE
    ELSE IF ~ACG_check_if_valid_player(g.current_player, piece) THEN FALSE
    ELSE IF ~ACG_check_if_valid_atomic_move(g.board, piece,
                                            destination_column, destination_row)
    THEN FALSE
    ELSE ACG_piece_rules(g.board, piece, current_row, current_column,
                         destination_row, destination_column)

(* check_if_king_dead without the branch for both Kings being gone. *)
ACG_check_if_king_dead_no_both(board, game_state, current_player) ==
    LET black_king_alive == \E p \in Coords : board[p[1]][p[2]] = BLACK_KING_VALUE
        white_king_alive == \E p \in Coords : board[p[1]][p[2]] = WHITE_KING_VALUE
    IN  IF ~black_king_alive THEN GAME_WHITE_WON
        ELSE IF ~white_king_alive THEN GAME_BLACK_WON
        ELSE game_state

ACG_check_if_king_dead(board, game_state, current_player) ==
    LET black_king_alive == \E p \in Coords : board[p[1]][p[2]] = BLACK_KING_VALUE
        white_king_alive == \E p \in Coords : board[p[1]][p[2]] = WHITE_KING_VALUE
    IN  IF ~black_king_alive /\ ~white_king_alive
        THEN (IF current_player = PLAYER_WHITE THEN GAME_BLACK_WON ELSE GAME_WHITE_WON)
        ELSE IF ~black_king_alive THEN GAME_WHITE_WON
        ELSE IF ~white_king_alive THEN GAME_BLACK_WON
        ELSE game_state

(* ACG_update_current_player without its else branch. *)
ACG_update_current_player_no_else(current_player) ==
    IF current_player = PLAYER_WHITE THEN PLAYER_BLACK ELSE current_player

ACG_update_current_player(current_player) ==
    IF current_player = PLAYER_WHITE THEN PLAYER_BLACK ELSE PLAYER_WHITE


(* ACG_mutate writing the moved piece on the source square as well. *)
ACG_mutate_keep_source(board, piece, current_column, current_row, destination_column, destination_row) ==
    IF board[destination_row][destination_column] # EMPTY_SQUARE
    THEN ACG_execute_atomic_explosion(
             [board EXCEPT ![destination_row][destination_column] = EMPTY_SQUARE],
             destination_row, destination_column)
    ELSE [board EXCEPT ![destination_row][destination_column] = piece]

(* The board after the mutation of make_move (160-171). *)
ACG_mutate(board, piece, current_column, current_row, destination_column, destination_row) ==
    LET b1 == [board EXCEPT ![current_row][current_column] = EMPTY_SQUARE]
    IN  IF b1[destination_row][destination_column] # EMPTY_SQUARE
        THEN ACG_execute_atomic_explosion(
                 [b1 EXCEPT ![destination_row][destination_column] = EMPTY_SQUARE],
                 destination_row, destination_column)
        ELSE [b1 EXCEPT ![destination_row][destination_column] = piece]

(* make_move on the game g: the game after the call, and the value returned. *)
ACG_make_move(g, square_moved_from, square_moved_to) ==
    LET cur == parse_square_notation(square_moved_from)
        dst == parse_square_notation(square_moved_to)
        current_row == cur[1]
        current_column == cur[2]
        destination_row == dst[1]
        destination_column == dst[2]
        piece == g.board[current_row][current_column]
    IN  IF ~ACG_validate_move(g, piece, current_row, current_column,
                              destination_row, destination_column)
        THEN [board |-> g.board, game_state |-> g.game_state,
              current_player |-> g.current_player, ret |-> FALSE]
        ELSE LET b == ACG_mutate(g.board, piece, current_column, current_row,
                                 destination_column, destination_row)
             IN  [board |-> b,
                  game_state |-> ACG_check_if_king_dead(b, g.game_state, g.current_player),
                  current_player |-> ACG_update_current_player(g.current_player),
                  ret |-> TRUE]

(***************************************************************************)
(*                        The state machine                                *)
(* impl is the class of the game object.  board, game_state and            *)
(* current_player are its three fields.  sq_from, sq_to and ret are the    *)
(* arguments and the return value of the last make_move call, pre is the   *)
(* game as it was when that call was made, ncalls counts the calls and     *)
(* nmoves those that returned True.  line, pos, free and rejected are the  *)
(* caller's position in the run.  gui is the ChessGUI object around the    *)
(* game, reloader the HotReloader object of dev_runner.py and world the    *)
(* files and child processes it works on.                                  *)
(***************************************************************************)
VARIABLES impl, board, game_state, current_player,
          sq_from, sq_to, ret, pre, ncalls, nmoves,
          line, pos, free, rejected, probe, gui, reloader, world

vars == <<impl, board, game_state, current_player,
          sq_from, sq_to, ret, pre, ncalls, nmoves,
          line, pos, free, rejected, probe, gui, reloader, world>>

(* The game, its history and the caller's position. *)
GameVars == <<impl, board, game_state, current_player, sq_from, sq_to, ret, pre, ncalls, nmoves, line, pos, free, rejected>>

mv(f1, r1, f2, r2) == <<(<<f1, r1>>), (<<f2, r2>>)>>

(***************************************************************************)
(* Game lines the caller may follow from a new game.                       *)
(*   1: a knight explodes the Black King on f7; play goes on.              *)
(*   2: a knight heads for a7.                                             *)
(*   3: a knight reaches c6, next to d8.                                   *)
(*   4: the Kings meet on d4 and d6 around the pawn on d5.                 *)
(*   5: a knight explodes the White King on f2.                            *)
(*   6: a Black pawn on d4 faces the White King on d3.                     *)
(*   7: both centre pawns advance and the bishops come out.                *)
(***************************************************************************)
Lines ==
    << <<mv("g","1","f","3"), mv("b","8","c","6"), mv("f","3","e","5"),
         mv("c","6","d","4"), mv("e","2","e","4"), mv("d","4","e","2"),
         mv("e","5","f","7"), mv("a","7","a","6")>>,
       <<mv("b","1","c","3"), mv("h","7","h","6"), mv("c","3","b","5"),
         mv("h","6","h","5")>>,
       <<mv("g","1","f","3"), mv("a","7","a","6"), mv("f","3","d","4"),
         mv("a","6","a","5"), mv("d","4","c","6"), mv("h","7","h","6")>>,
       <<mv("e","2","e","4"), mv("d","7","d","5"), mv("e","1","e","2"),
         mv("e","8","d","7"), mv("e","2","d","3"), mv("d","7","d","6"),
         mv("d","3","d","4"), mv("a","7","a","6")>>,
       <<mv("a","2","a","3"), mv("g","8","f","6"), mv("a","3","a","4"),
         mv("f","6","e","4"), mv("h","2","h","3"), mv("e","4","f","2")>>,
       <<mv("e","2","e","4"), mv("d","7","d","5"), mv("e","1","e","2"),
         mv("d","5","d","4"), mv("e","2","d","3"), mv("a","7","a","6")>>,
       <<mv("d","2","d","4"), mv("e","7","e","5"), mv("c","1","f","4"),
         mv("f","8","b","4")>> >>

Impls == {"ChessVar", "AtomicChessGame"}

(* The game object as a record. *)
Game == [board |-> board, game_state |-> game_state, current_player |-> current_player]

(* ChessVar.__init__ and AtomicChessGame.__init__. *)
CV_NewGame == [board |-> CV_StartBoard, game_state |-> "UNFINISHED", current_player |-> "WHITE"]
NewGame == [board |-> StartBoard, game_state |-> "UNFINISHED", current_player |-> "WHITE"]

(* No accessor or boundary call has been made yet; a run makes at most one. *)
NoProbe == [op |-> "none"]

(* Python's None, where the value is otherwise a tuple or a process. *)
None == <<>>

(* ChessGUI.__init__: nothing selected.  event, row, col, outcome and
   was_selected record the last event handled, stray and new_games count the
   clicks off the game line and the presses of 'New Game'. *)
NewGui == [selected_square |-> None, event |-> "none", row |-> 0, col |-> 0, outcome |-> "none", was_selected |-> None, stray |-> 0, new_games |-> 0]

(* main() of dev_runner.py: the files watched, in the order they are polled. *)
watch_files == <<"chess_gui.py", "ChessVar.py">>
WatchSet == {watch_files[i] : i \in 1 .. Len(watch_files)}

(* HotReloader.__init__: no child, no recorded times (a missing entry reads
   as 0), running.  pc is the position of run, restarts counts the children
   started after the first. *)
NewReloader == [pc |-> "idle", process |-> None, last_modified |-> [f \in WatchSet |-> 0], running |-> TRUE, restarts |-> 0]

(* The files and processes before run is called: every watched file exists
   with modification time 1, no child has been started.  children[i] is the
   state of the i-th child started, pending[f] holds from a modification of
   f to the next start of a child, touches counts the modifications. *)
NewWorld == [mtime |-> [f \in WatchSet |-> 1], clock |-> 1, children |-> <<>>, pending |-> [f \in WatchSet |-> FALSE], touches |-> 0]

(* The object built by the constructor of engine i. *)
NewGameOf(i) == IF i = "ChessVar" THEN CV_NewGame ELSE NewGame

Init ==
    /\ impl \in Impls
    /\ board = NewGameOf(impl).board
    /\ game_state = NewGameOf(impl).game_state
    /\ current_player = NewGameOf(impl).current_player
    /\ sq_from = <<"a", "1">>
    /\ sq_to = <<"a", "1">>
    /\ ret = FALSE
    /\ pre = NewGameOf(impl)
    /\ ncalls = 0
    /\ nmoves = 0
    /\ line \in 1 .. Len(Lines)
    /\ pos = 0
    /\ free = 0
    /\ rejected = 0
    /\ probe = NoProbe
    /\ gui = NewGui
    /\ reloader = NewReloader
    /\ world = NewWorld

(* The caller makes another call. *)
CanCall == rejected < MaxRejected /\ free < MaxFree

(* The call follows the caller's game line. *)
OnLine(f, t, r) ==
    /\ r.ret
    /\ free = 0
    /\ pos < Len(Lines[line])
    /\ <<f, t>> = Lines[line][pos + 1]

(* The effect of a call that left the game as r and returned r.ret. *)
CalledGame(f, t, r) ==
    /\ board' = r.board
    /\ game_state' = r.game_state
    /\ current_player' = r.current_player
    /\ sq_from' = f
    /\ sq_to' = t
    /\ ret' = r.ret
    /\ pre' = Game
    /\ ncalls' = ncalls + 1
    /\ nmoves' = IF r.ret THEN nmoves + 1 ELSE nmoves
    /\ pos' = IF OnLine(f, t, r) THEN pos + 1 ELSE pos
    /\ free' = IF r.ret /\ ~OnLine(f, t, r) THEN free + 1 ELSE free
    /\ rejected' = IF r.ret THEN rejected ELSE rejected + 1
    /\ UNCHANGED <<impl, line>>

Called(f, t, r) == CalledGame(f, t, r) /\ UNCHANGED <<probe, gui, reloader, world>>

(* ChessVar.make_move(f, t), for any two well-formed squares. *)
CV_MakeMove ==
    /\ impl = "ChessVar"
    /\ CanCall
    /\ \E f \in Squares, t \in Squares :
          \E r \in {CV_make_move(Game, f, t)} : Called(f, t, r)

(* AtomicChessGame.make_move(f, t), for any two well-formed squares. *)
ACG_MakeMove ==
    /\ impl = "AtomicChessGame"
    /\ CanCall
    /\ \E f \in Squares, t \in Squares :
          \E r \in {ACG_make_move(Game, f, t)} : Called(f, t, r)

Next == CV_MakeMove \/ ACG_MakeMove

Spec == Init /\ [][Next]_vars

(***************************************************************************)
(*        The grid accessor and the boundary layer of ChessVar.py          *)
(***************************************************************************)
(* Coordinates passed to get_piece_type range over -MaxQuery .. MaxQuery. *)
MaxQuery == 9
QueryRange == (0 - MaxQuery) .. MaxQuery

(* self._board[row][column] of Python: the value read, or raised when either
   index is outside -8 .. 7 (IndexError). *)
PyGetItem2(b, row, column) ==
    IF PyIndexOk(row) /\ PyIndexOk(column)
    THEN [raised |-> FALSE, value |-> b[PyIndex(row)][PyIndex(column)]]
    ELSE [raised |-> TRUE, value |-> -1]

CV_get_piece_type(b, row, column) == PyGetItem2(b, row, column)
ACG_get_piece_type(b, row, column) == PyGetItem2(b, row, column)

(* Python values of type str and int; == between them compares the types
   first, so a str never equals an int. *)
PyStr(ch) == [type |-> "str", v |-> ch]
PyInt(n) == [type |-> "int", v |-> n]
PyEq(x, y) == x.type = y.type /\ x.v = y.v
PyInTuple(x, tuple) == \E i \in 1 .. Len(tuple) : PyEq(x, tuple[i])

(* str.lower(), character by character. *)
lower_ch(ch) ==
    CASE ch = "A" -> "a" [] ch = "B" -> "b" [] ch = "C" -> "c" [] ch = "D" -> "d"
      [] ch = "E" -> "e" [] ch = "F" -> "f" [] ch = "G" -> "g" [] ch = "H" -> "h"
      [] ch = "I" -> "i" [] OTHER -> ch
lower(str) == [i \in 1 .. Len(str) |-> lower_ch(str[i])]

valid_letters == <<PyStr("a"), PyStr("b"), PyStr("c"), PyStr("d"), PyStr("e"), PyStr("f"), PyStr("g"), PyStr("h")>>
valid_numbers == <<PyInt(1), PyInt(2), PyInt(3), PyInt(4), PyInt(5), PyInt(6), PyInt(7), PyInt(8)>>

(* validate_input(start_pos, end_pos): "False" for return False, "None" when
   the function falls off its end, "IndexError" when start_pos[0] or
   start_pos[1] (end_pos likewise) does not exist. *)
validate_input(start_pos, end_pos) ==
    LET s == lower(start_pos)
        e == lower(end_pos)
    IN  IF Len(s) < 1 THEN "IndexError"
        ELSE IF ~PyInTuple(PyStr(s[1]), valid_letters) THEN "False"
        ELSE IF Len(e) < 1 THEN "IndexError"
        ELSE IF ~PyInTuple(PyStr(e[1]), valid_letters) THEN "False"
        ELSE IF Len(s) < 2 THEN "IndexError"
        ELSE IF ~PyInTuple(PyStr(s[2]), valid_numbers) THEN "False"
        ELSE IF Len(e) < 2 THEN "IndexError"
        ELSE IF ~PyInTuple(PyStr(e[2]), valid_numbers) THEN "False"
        ELSE "None"

(* The square strings a user may type: every file and rank of a small set
   with in-range and out-of-range characters, and three of wrong length. *)
InputFiles == {"a", "e", "h", "i", "E"}
InputRanks == {"0", "1", "2", "4", "8", "9"}
Inputs ==
    {<<f, r>> : f \in InputFiles, r \in InputRanks}
        \cup {<<>>, <<"e">>, <<"e", "2", "2">>}

(* The next move of the game line, made before any accessor or boundary
   call and until a move of the line is rejected. *)
PlayLine ==
    /\ probe = NoProbe
    /\ rejected = 0
    /\ pos < Len(Lines[line])
    /\ LET m == Lines[line][pos + 1]
       IN  \E r \in {IF impl = "ChessVar"
                      THEN CV_make_move(Game, m[1], m[2])
                      ELSE ACG_make_move(Game, m[1], m[2])} :
               Called(m[1], m[2], r)

(* ChessVar.get_piece_type(row, column). *)
CV_GetPieceType ==
    /\ probe = NoProbe
    /\ impl = "ChessVar"
    /\ \E row \in QueryRange, column \in QueryRange :
          \E r \in {CV_get_piece_type(board, row, column)} :
             probe' = [op |-> "get_piece_type", row |-> row, column |-> column,
                       raised |-> r.raised, value |-> r.value]
    /\ UNCHANGED <<GameVars, gui, reloader, world>>

(* AtomicChessGame.get_piece_type(row, column). *)
ACG_GetPieceType ==
    /\ probe = NoProbe
    /\ impl = "AtomicChessGame"
    /\ \E row \in QueryRange, column \in QueryRange :
          \E r \in {ACG_get_piece_type(board, row, column)} :
             probe' = [op |-> "get_piece_type", row |-> row, column |-> column,
                       raised |-> r.raised, value |-> r.value]
    /\ UNCHANGED <<GameVars, gui, reloader, world>>

(* One pass of the __main__ loop of ChessVar.py on the typed squares
   start_pos and end_pos: `continue` when validate_input(...) is False, the
   program ends on an exception, and otherwise make_move is called with the
   two strings as typed. *)
MainLoop ==
    /\ probe = NoProbe
    /\ impl = "ChessVar"
    /\ \E start_pos \in Inputs, end_pos \in Inputs :
          \E v \in {validate_input(start_pos, end_pos)} :
             IF v \in {"False", "IndexError"}
             THEN /\ probe' = [op |-> "validate_input", start_pos |-> start_pos,
                               end_pos |-> end_pos, result |-> v,
                               made_move |-> FALSE]
                  /\ UNCHANGED <<GameVars, gui, reloader, world>>
             ELSE /\ probe' = [op |-> "validate_input", start_pos |-> start_pos,
                               end_pos |-> end_pos, result |-> v,
                               made_move |-> TRUE]
                  /\ \E r \in {CV_make_move(Game, start_pos, end_pos)} :
                        CalledGame(start_pos, end_pos, r)
                  /\ UNCHANGED <<gui, reloader, world>>

BoundaryNext == PlayLine \/ CV_GetPieceType \/ ACG_GetPieceType \/ MainLoop

BoundarySpec == Init /\ [][BoundaryNext]_vars

(***************************************************************************)
(*                        The window of chess_gui.py                       *)
(***************************************************************************)
(* Clicks off the game line and presses of 'New Game' in one run. *)
MaxStray == 2
MaxNewGame == 1

(* chr(n) and str(n) of Python, on the codes and numbers the window passes. *)
chr(n) ==
    CASE n = 97 -> "a" [] n = 98 -> "b" [] n = 99 -> "c" [] n = 100 -> "d"
      [] n = 101 -> "e" [] n = 102 -> "f" [] n = 103 -> "g" [] n = 104 -> "h"

str(n) ==
    CASE n = 1 -> "1" [] n = 2 -> "2" [] n = 3 -> "3" [] n = 4 -> "4"
      [] n = 5 -> "5" [] n = 6 -> "6" [] n = 7 -> "7" [] n = 8 -> "8"

(* The notation built with the rank digit taken as row + 1. *)
notation_row_plus_one(row, col) == <<chr(ord("a") + col), str(row + 1)>>

(* chr(ord("a") + col) + str(8 - row): the notation square_clicked builds. *)
notation(row, col) == <<chr(ord("a") + col), str(8 - row)>>

(* The click continues the game line: the source of its next move when
   nothing is selected, its destination when the source is selected. *)
OnLineClick(row, col) ==
    /\ free = 0
    /\ rejected = 0
    /\ pos < Len(Lines[line])
    /\ LET m == Lines[line][pos + 1]
       IN  IF gui.selected_square = None
           THEN <<row, col>> = parse_square_notation(m[1])
           ELSE /\ gui.selected_square = parse_square_notation(m[1])
                /\ <<row, col>> = parse_square_notation(m[2])

(* The window after an event that made no make_move call. *)
Handled(event, row, col, outcome, selected, stray) ==
    /\ gui' = [gui EXCEPT !.selected_square = selected, !.event = event, !.row = row, !.col = col, !.outcome = outcome, !.was_selected = gui.selected_square, !.stray = stray]

(* The first click selecting any piece, the opponent's included. *)
first_click_any_piece(g, row, col) ==
    LET piece == CV_get_piece_type(g.board, row, col).value
    IN  IF piece = 0
        THEN [selected_square |-> None, outcome |-> "no_piece"]
        ELSE [selected_square |-> <<row, col>>, outcome |-> "selected"]

(* The first click of square_clicked: the selection it leaves and why. *)
first_click(g, row, col) ==
    LET piece == CV_get_piece_type(g.board, row, col).value
    IN  IF piece = 0
        THEN [selected_square |-> None, outcome |-> "no_piece"]
        ELSE IF ~CV_check_if_valid_player(g.current_player, piece)
             THEN [selected_square |-> None, outcome |-> "not_own_piece"]
             ELSE [selected_square |-> <<row, col>>, outcome |-> "selected"]

(* The window taking no game for finished. *)
game_finished_never(g) == FALSE

(* self.game.get_game_state() != "UNFINISHED", the first test of
   square_clicked. *)
game_finished(g) == g.game_state # "UNFINISHED"

(* ChessGUI.square_clicked(row, col), one of the 64 buttons of the board. *)
SquareClicked ==
    /\ impl = "ChessVar"
    /\ \E row \in Idx, col \in Idx :
          \E stray \in {IF OnLineClick(row, col) THEN gui.stray ELSE gui.stray + 1} :
             /\ stray <= MaxStray
             /\ IF game_finished(Game)
                THEN /\ Handled("click", row, col, "game_over", gui.selected_square, stray)
                     /\ UNCHANGED GameVars
                ELSE IF gui.selected_square = None
                THEN /\ \E c \in {first_click(Game, row, col)} :
                           Handled("click", row, col, c.outcome, c.selected_square, stray)
                     /\ UNCHANGED GameVars
                ELSE IF <<row, col>> = gui.selected_square
                THEN /\ Handled("click", row, col, "deselected", None, stray)
                     /\ UNCHANGED GameVars
                ELSE LET start_pos == notation(gui.selected_square[1], gui.selected_square[2])
                         end_pos == notation(row, col)
                     IN  \E r \in {CV_make_move(Game, start_pos, end_pos)} :
                            /\ Handled("click", row, col, IF r.ret THEN "moved" ELSE "not_allowed", None, stray)
                            /\ CalledGame(start_pos, end_pos, r)
    /\ UNCHANGED <<probe, reloader, world>>

(* ChessGUI.new_game: a new ChessVar object and no selection. *)
NewGamePressed ==
    /\ impl = "ChessVar"
    /\ gui.new_games < MaxNewGame
    /\ board' = CV_NewGame.board
    /\ game_state' = CV_NewGame.game_state
    /\ current_player' = CV_NewGame.current_player
    /\ sq_from' = <<"a", "1">>
    /\ sq_to' = <<"a", "1">>
    /\ ret' = FALSE
    /\ pre' = CV_NewGame
    /\ ncalls' = 0
    /\ nmoves' = 0
    /\ pos' = 0
    /\ free' = 0
    /\ rejected' = 0
    /\ gui' = [gui EXCEPT !.selected_square = None, !.event = "new_game", !.outcome = "none", !.was_selected = gui.selected_square, !.new_games = gui.new_games + 1]
    /\ UNCHANGED <<impl, line, probe, reloader, world>>

(* ChessGUI.reload_ui: the widgets are rebuilt; the game and the selection
   are not touched. *)
ReloadUI ==
    /\ impl = "ChessVar"
    /\ gui' = [gui EXCEPT !.event = "reload_ui", !.outcome = "none", !.was_selected = gui.selected_square]
    /\ UNCHANGED <<GameVars, probe, reloader, world>>

GuiNext == SquareClicked \/ NewGamePressed \/ ReloadUI

(* The game lines played through the window: line 1 ends with a King
   exploded, line 2 with a capture next to the edge. *)
GuiLines == {1, 2}

(* The window is created with a ChessVar game (chess_gui.py 16). *)
GuiInit == Init /\ impl = "ChessVar" /\ line \in GuiLines

GuiSpec == GuiInit /\ [][GuiNext]_vars

(***************************************************************************)
(*                    The hot reloader of dev_runner.py                    *)
(* run is one thread; pc is its position: idle (not called), sleep, check, *)
(* restart_stop and restart_popen (the two halves of start_process on a    *)
(* change), poll, finally, done.  The files are modified, the child exits  *)
(* and Ctrl-C is pressed by the environment, at any point of the loop.     *)
(***************************************************************************)
(* Modifications of watched files in one run. *)
MaxTouch == 3

(* os.path.getmtime(filepath); every watched file exists (main, 103-107). *)
get_file_modified_time(w, filepath) == w.mtime[filepath]

RECURSIVE scan_for_changes(_, _, _)
scan_for_changes(last_modified, w, i) ==
    IF i > Len(watch_files)
    THEN [changed |-> FALSE, last_modified |-> last_modified]
    ELSE LET filepath == watch_files[i]
             current_time == get_file_modified_time(w, filepath)
             last_time == last_modified[filepath]
         IN  IF current_time > last_time
             THEN [changed |-> TRUE, last_modified |-> [last_modified EXCEPT ![filepath] = current_time]]
             ELSE scan_for_changes(last_modified, w, i + 1)

(* check_for_changes looking at the first watched file only. *)
check_for_changes_first_file(last_modified, w) ==
    LET filepath == watch_files[1]
    IN  IF get_file_modified_time(w, filepath) > last_modified[filepath]
        THEN [changed |-> TRUE, last_modified |-> [last_modified EXCEPT ![filepath] = get_file_modified_time(w, filepath)]]
        ELSE [changed |-> FALSE, last_modified |-> last_modified]

(* check_for_changes: the first watched file whose time is later than the
   recorded one gets its record updated and the result is True; the files
   after it are not looked at. *)
check_for_changes(last_modified, w) ==
    scan_for_changes(last_modified, w, 1)

(* The children after stop_process: the tracked child, when there is one, is
   terminated (or killed after the 3 s wait); a child that has already exited
   stays so. *)
stop_process(process, children) ==
    IF process = None
    THEN children
    ELSE [i \in DOMAIN children |-> IF i = process[1] /\ children[i] = "running" THEN "stopped" ELSE children[i]]

(* The loop of run is executing. *)
InLoop == reloader.pc \in {"sleep", "check", "restart_stop", "restart_popen", "poll"}

(* run, lines 70-75: the times of the watched files are recorded and the
   first child is started. *)
RunStart ==
    /\ reloader.pc = "idle"
    /\ reloader' = [reloader EXCEPT !.pc = "sleep", !.last_modified = [f \in WatchSet |-> get_file_modified_time(world, f)], !.process = <<Len(world.children) + 1>>]
    /\ world' = [world EXCEPT !.children = Append(stop_process(reloader.process, world.children), "running"), !.pending = [f \in WatchSet |-> FALSE]]
    /\ UNCHANGED <<GameVars, probe, gui>>

(* time.sleep(0.5) returns. *)
Sleep ==
    /\ reloader.pc = "sleep"
    /\ reloader' = [reloader EXCEPT !.pc = "check"]
    /\ UNCHANGED <<GameVars, probe, gui, world>>

(* if self.check_for_changes(): ... *)
CheckForChanges ==
    /\ reloader.pc = "check"
    /\ \E c \in {check_for_changes(reloader.last_modified, world)} :
          reloader' = [reloader EXCEPT !.last_modified = c.last_modified, !.pc = IF c.changed THEN "restart_stop" ELSE "poll"]
    /\ UNCHANGED <<GameVars, probe, gui, world>>

(* start_process, lines 46-47: the tracked child is stopped. *)
RestartStop ==
    /\ reloader.pc = "restart_stop"
    /\ reloader' = [reloader EXCEPT !.pc = "restart_popen", !.process = None]
    /\ world' = [world EXCEPT !.children = stop_process(reloader.process, world.children)]
    /\ UNCHANGED <<GameVars, probe, gui>>

(* start_process, line 50: a new child is started and tracked. *)
RestartPopen ==
    /\ reloader.pc = "restart_popen"
    /\ reloader' = [reloader EXCEPT !.pc = "poll", !.process = <<Len(world.children) + 1>>, !.restarts = reloader.restarts + 1]
    /\ world' = [world EXCEPT !.children = Append(world.children, "running"), !.pending = [f \in WatchSet |-> FALSE]]
    /\ UNCHANGED <<GameVars, probe, gui>>

(* if self.process and self.process.poll() is not None: break; otherwise
   the loop goes round (self.running is True). *)
Poll ==
    /\ reloader.pc = "poll"
    /\ reloader' = [reloader EXCEPT !.pc = IF reloader.process # None /\ world.children[reloader.process[1]] # "running" THEN "finally" ELSE IF reloader.running THEN "sleep" ELSE "finally"]
    /\ UNCHANGED <<GameVars, probe, gui, world>>

(* finally: self.running = False; self.stop_process(); run returns. *)
Finally ==
    /\ reloader.pc = "finally"
    /\ reloader' = [reloader EXCEPT !.pc = "done", !.running = FALSE, !.process = None]
    /\ world' = [world EXCEPT !.children = stop_process(reloader.process, world.children)]
    /\ UNCHANGED <<GameVars, probe, gui>>

(* Ctrl-C while the loop is executing: except KeyboardInterrupt, then the
   finally block. *)
KeyboardInterrupt ==
    /\ InLoop
    /\ reloader' = [reloader EXCEPT !.pc = "finally"]
    /\ UNCHANGED <<GameVars, probe, gui, world>>

(* A watched file is saved: its modification time becomes the present. *)
Touch ==
    /\ reloader.pc # "done"
    /\ world.touches < MaxTouch
    /\ \E f \in WatchSet :
          world' = [world EXCEPT !.clock = world.clock + 1, !.mtime[f] = world.clock + 1, !.pending[f] = TRUE, !.touches = world.touches + 1]
    /\ UNCHANGED <<GameVars, probe, gui, reloader>>

(* The window is closed: the running child exits by itself. *)
ChildExit ==
    /\ \E i \in DOMAIN world.children :
          /\ world.children[i] = "running"
          /\ world' = [world EXCEPT !.children[i] = "exited"]
    /\ UNCHANGED <<GameVars, probe, gui, reloader>>

(* The steps of the thread executing run. *)
RunnerStep == RunStart \/ Sleep \/ CheckForChanges \/ RestartStop \/ RestartPopen \/ Poll \/ Finally

HotReloadNext == RunnerStep \/ KeyboardInterrupt \/ Touch \/ ChildExit

HotReloadInit == Init /\ impl = "ChessVar" /\ line = 1

(* The thread of run keeps executing: sleep returns after 0.5 s and
   stop_process waits at most 3 s before it kills. *)
HotReloadSpec == HotReloadInit /\ [][HotReloadNext]_vars /\ WF_vars(RunnerStep)

(***************************************************************************)
(*                             Properties                                  *)
(***************************************************************************)
(* <<row, column>> of the source and of the destination of the last call. *)
From == parse_square_notation(sq_from)
To == parse_square_notation(sq_to)

Terminal(s) == s \in {"WHITE_WON", "BLACK_WON"}
Other(player) == IF player = "WHITE" THEN "BLACK" ELSE "WHITE"

(* A call has been made, and it was rejected / accepted. *)
Rejected == ncalls > 0 /\ ~ret
Accepted == ncalls > 0 /\ ret

(* The ChessVar checks other than the game-state test pass for the last call. *)
CV_WouldBeLegal ==
    CV_accepts_no_state_check(pre, pre.board[From[1]][From[2]],
                              From[2], From[1], To[2], To[1])

(* C1: a make_move call that returns False leaves the board, the current
   player and the game state as they were before the call. *)
C1_RejectedMutatesNothing == Rejected => Game = pre

(* A rejected call whose source square holds a piece and whose destination
   is another square. *)
C1_Witness ==
    /\ Rejected
    /\ pre.board[From[1]][From[2]] # 0
    /\ From # To
    /\ Game = pre

(* C2: in AtomicChessGame, a make_move call made when the game state is
   WHITE_WON or BLACK_WON returns False and changes nothing. *)
C2_TerminalLockACG ==
    (impl = "AtomicChessGame" /\ ncalls > 0 /\ Terminal(pre.game_state))
        => (~ret /\ Game = pre)

(* C3: in ChessVar, a make_move call made when the game state is WHITE_WON
   or BLACK_WON returns False and changes nothing, whatever the move. *)
C3_TerminalLockCV ==
    (impl = "ChessVar" /\ ncalls > 0 /\ Terminal(pre.game_state))
        => (~ret /\ Game = pre)

(* A call in a finished ChessVar game that passes every other check. *)
C3_Witness ==
    /\ impl = "ChessVar"
    /\ ncalls > 0
    /\ Terminal(pre.game_state)
    /\ CV_WouldBeLegal
    /\ ~ret

(* C4: once the game state is WHITE_WON or BLACK_WON, a make_move call
   leaves it at exactly that value. *)
C4_OutcomeMonotonic ==
    (ncalls > 0 /\ Terminal(pre.game_state)) => game_state = pre.game_state

(* C5: a call that returns True switches the current player, a call that
   returns False leaves it, and the current player is WHITE after an even
   number of successful moves and BLACK after an odd number. *)
C5_TurnAlternation ==
    /\ Accepted => current_player = Other(pre.current_player)
    /\ Rejected => current_player = pre.current_player
    /\ current_player = (IF nmoves % 2 = 0 THEN "WHITE" ELSE "BLACK")

(* A successful move by Black that ends the game. *)
C5_Witness ==
    /\ Accepted
    /\ pre.current_player = "BLACK"
    /\ pre.game_state = "UNFINISHED"
    /\ Terminal(game_state)
    /\ current_player = "WHITE"
    /\ nmoves % 2 = 0

(* Squares within one row and one column of each other (a square is near itself). *)
Near(p, q) == abs(p[1] - q[1]) <= 1 /\ abs(p[2] - q[2]) <= 1
Neighbours(p) == {q \in Coords : Near(p, q) /\ q # p}
Pawn(x) == x \in {BP, WP}
At(b, p) == b[p[1]][p[2]]

(* The last call was a successful move onto an occupied square. *)
Capture == Accepted /\ At(pre.board, To) # 0

(* Both Kings stand in the on-board 3x3 neighbourhood of p. *)
BothKingsNear(b, p) ==
    /\ \E q \in Coords : Near(p, q) /\ At(b, q) = WK
    /\ \E q \in Coords : Near(p, q) /\ At(b, q) = BK

(* Every check of the last call other than the double-kill guard passes. *)
CV_OtherChecks ==
    LET piece == At(pre.board, From)
    IN  /\ CV_check_if_valid_player(pre.current_player, piece)
        /\ ~CV_king_capture(pre.board, piece, To[2], To[1])
        /\ CV_check_if_valid_chess_move(pre.board, piece, From[2], From[1], To[2], To[1])
        /\ pre.game_state = "UNFINISHED"

ACG_OtherChecks ==
    LET piece == At(pre.board, From)
    IN  /\ ACG_validate_standard_move(pre.board, piece, From[2], From[1], To[2], To[1])
        /\ piece # EMPTY_SQUARE
        /\ ACG_check_if_valid_player(pre.current_player, piece)
        /\ ~ACG_king_capture(pre.board, piece, To[2], To[1])
        /\ ACG_piece_rules(pre.board, piece, From[1], From[2], To[1], To[2])

OtherChecksPass == IF impl = "ChessVar" THEN CV_OtherChecks ELSE ACG_OtherChecks

(* C6 as stated: after a successful capture at `to`, `to` is empty, every
   neighbour of `to` that held a non-pawn piece is empty, and every pawn that
   stood on a neighbour of `to` is still there. *)
C6_ExplosionEffect_AsStated ==
    Capture =>
        /\ At(board, To) = 0
        /\ \A q \in Neighbours(To) :
              IF Pawn(At(pre.board, q))
              THEN At(board, q) = At(pre.board, q)
              ELSE At(board, q) = 0

(* C6 (amended): after a successful capture at `to`, `to` is empty, every
   neighbour of `to` that held a non-pawn piece is empty, and every pawn that
   stood on a neighbour of `to` other than the source square is still there. *)
C6_ExplosionEffect ==
    Capture =>
        /\ At(board, To) = 0
        /\ \A q \in Neighbours(To) :
              /\ ~Pawn(At(pre.board, q)) => At(board, q) = 0
              /\ (Pawn(At(pre.board, q)) /\ q # From) => At(board, q) = At(pre.board, q)

(* A capture next to a pawn that stays and to a piece that is destroyed. *)
C6_Witness ==
    /\ Capture
    /\ \E q \in Neighbours(To) :
          q # From /\ Pawn(At(pre.board, q)) /\ At(board, q) = At(pre.board, q)
    /\ \E q \in Neighbours(To) :
          q # From /\ At(pre.board, q) # 0 /\ ~Pawn(At(pre.board, q)) /\ At(board, q) = 0

(* C7: a successful capture at `to` by a piece standing on `from` changes no
   square other than `from`, `to` and the on-board squares within one row and
   one column of `to`. *)
C7_ExplosionConfined ==
    (Capture /\ At(pre.board, From) # 0) =>
        \A q \in Coords : (q # From /\ ~Near(q, To)) => At(board, q) = At(pre.board, q)

(* C8: after a successful move onto an occupied square, the source square
   and the destination square are both empty. *)
C8_CapturingPieceDestroyed ==
    Capture => (At(board, From) = 0 /\ At(board, To) = 0)

(* A capture made by a pawn. *)
C8_Witness ==
    /\ Capture
    /\ Pawn(At(pre.board, From))
    /\ At(board, From) = 0
    /\ At(board, To) = 0

(* C9: a move onto an occupied square whose on-board 3x3 neighbourhood holds
   both Kings is rejected, and the board is unchanged. *)
C9_DoubleKillGuard ==
    (ncalls > 0 /\ At(pre.board, To) # 0 /\ BothKingsNear(pre.board, To))
        => (~ret /\ board = pre.board)

(* Such a move that passes every other check. *)
C9_Witness ==
    /\ ncalls > 0
    /\ At(pre.board, To) # 0
    /\ BothKingsNear(pre.board, To)
    /\ OtherChecksPass
    /\ ~ret

(* C10: a move onto an occupied square that passes every other check is
   accepted when the two Kings are not both within one square of `to`. *)
C10_GuardClipped ==
    (/\ ncalls > 0
     /\ At(pre.board, To) # 0
     /\ OtherChecksPass
     /\ ~BothKingsNear(pre.board, To))
        => ret

(* Some square of board b holds King k. *)
KingOn(b, k) == \E q \in Coords : At(b, q) = k

(* C11: after a successful move the game state is UNFINISHED exactly when
   both Kings are on the board, BLACK_WON when only the Black King is left
   and WHITE_WON when only the White King is left. *)
C11_OutcomeDetermination ==
    Accepted =>
        /\ (game_state = "UNFINISHED") <=> (KingOn(board, WK) /\ KingOn(board, BK))
        /\ (~KingOn(board, WK) /\ KingOn(board, BK)) => game_state = "BLACK_WON"
        /\ (~KingOn(board, BK) /\ KingOn(board, WK)) => game_state = "WHITE_WON"

(* A capture next to a King, by a piece that does not stand next to its own
   King, ends the game for the surviving colour. *)
C11_Witness ==
    /\ Capture
    /\ pre.game_state = "UNFINISHED"
    /\ \E q \in Neighbours(To) : At(pre.board, q) \in {WK, BK}
    /\ Terminal(game_state)
    /\ KingOn(board, WK) # KingOn(board, BK)

(* C12: if a successful move leaves neither King on the board, the player
   who made it loses: BLACK_WON when White moved, WHITE_WON when Black
   moved. *)
C12_BothKingsGone ==
    (Accepted /\ ~KingOn(board, WK) /\ ~KingOn(board, BK))
        => game_state = (IF pre.current_player = "WHITE" THEN "BLACK_WON" ELSE "WHITE_WON")

(* White makes a move that removes the last King. *)
C12_Witness ==
    /\ Accepted
    /\ pre.current_player = "WHITE"
    /\ KingOn(pre.board, WK) \/ KingOn(pre.board, BK)
    /\ ~KingOn(board, WK)
    /\ ~KingOn(board, BK)
    /\ game_state = "BLACK_WON"

(* The colour of a piece value, as a player name. *)
White(x) == x >= 10
Black(x) == x \in 1..6
ColourOf(x) == IF White(x) THEN "WHITE" ELSE "BLACK"
SameColour(x, y) == (White(x) /\ White(y)) \/ (Black(x) /\ Black(y))

(* The piece on the source square, and the content of the destination
   square, before the last call. *)
Mover == At(pre.board, From)
Target == At(pre.board, To)

(* C13: for either current player, a make_move whose source square is empty
   returns False and changes nothing, whatever the destination. *)
C13_EmptySourceRejected ==
    (ncalls > 0 /\ Mover = 0) => (~ret /\ Game = pre)

(* A make_move whose source square holds a piece of the player who is not to
   move is rejected and changes nothing. *)
C14_OpponentPieceRejected ==
    (ncalls > 0 /\ Mover # 0 /\ ColourOf(Mover) # pre.current_player)
        => (~ret /\ Game = pre)

(* Every successful move moves a piece of the player whose turn it is. *)
C14_MoverOwnsPiece ==
    Accepted => (Mover # 0 /\ ColourOf(Mover) = pre.current_player)

(* C14: a make_move whose source square holds a piece of the colour that is
   not the current player is rejected, and so every successful move moves a
   piece of the player whose turn it is. *)
C14_Ownership == C14_OpponentPieceRejected /\ C14_MoverOwnsPiece

(* C15: a move whose destination holds a piece of the same colour as the
   moving piece is rejected whatever its shape and path; the move from a
   square to itself is one of these. *)
C15_NoSelfCapture ==
    (ncalls > 0 /\ Mover # 0 /\ SameColour(Mover, Target)) => (~ret /\ Game = pre)

(* A move of the player's own piece onto another piece of that player whose
   shape and path the piece rules allow. *)
C15_Witness ==
    /\ impl = "AtomicChessGame"
    /\ ncalls > 0
    /\ From # To
    /\ SameColour(Mover, Target)
    /\ ColourOf(Mover) = pre.current_player
    /\ ACG_piece_rules(pre.board, Mover, From[1], From[2], To[1], To[2])
    /\ ~ret

(* C16: every move of a King onto an occupied square is rejected. *)
C16_KingsCannotCapture ==
    (ncalls > 0 /\ Mover \in {WK, BK} /\ Target # 0) => (~ret /\ Game = pre)

(* The King of the player to move steps onto an adjacent opposing piece in a
   game in progress, away from the other King. *)
C16_Witness ==
    /\ ncalls > 0
    /\ Mover \in {WK, BK}
    /\ ColourOf(Mover) = pre.current_player
    /\ Target # 0
    /\ ~SameColour(Mover, Target)
    /\ Near(From, To)
    /\ ~BothKingsNear(pre.board, To)
    /\ pre.game_state = "UNFINISHED"
    /\ ~ret

(* Rows and columns travelled by the last call, and whether it goes toward
   the forward direction of piece x (White to a smaller row index, Black to
   a larger one). *)
RowDist == abs(From[1] - To[1])
ColDist == abs(From[2] - To[2])
Forward(x) == IF White(x) THEN To[1] < From[1] ELSE To[1] > From[1]
StartRow(x) == IF White(x) THEN WHITE_PAWN_START_ROW ELSE BLACK_PAWN_START_ROW

(* C17: a pawn's straight two-square advance is accepted only if the square
   it passes over and the destination are both empty. *)
C17_DoubleStepClearPath ==
    (Accepted /\ Pawn(Mover) /\ ColDist = 0 /\ RowDist = 2)
        => /\ Target = 0
           /\ At(pre.board, <<(From[1] + To[1]) \div 2, From[2]>>) = 0

(* C18: an accepted straight pawn move goes forward onto an empty square and
   advances exactly one row, or two rows when that pawn stands on its own
   starting row. *)
C18_PawnStraight ==
    (Accepted /\ Pawn(Mover) /\ ColDist = 0)
        => /\ Forward(Mover)
           /\ Target = 0
           /\ \/ RowDist = 1
              \/ RowDist = 2 /\ From[1] = StartRow(Mover)

(* C19: an accepted pawn move that changes column goes exactly one column
   sideways and one row forward onto an opposing piece, and an accepted
   straight pawn move ends on an empty square. *)
C19_PawnCaptures ==
    (Accepted /\ Pawn(Mover))
        => /\ ColDist # 0 =>
                /\ ColDist = 1
                /\ RowDist = 1
                /\ Forward(Mover)
                /\ Target # 0
                /\ ~SameColour(Mover, Target)
           /\ ColDist = 0 => Target = 0

(* The squares strictly between p and q on a shared row or column. *)
Between(p, q) ==
    {s \in Coords :
        /\ s # p
        /\ s # q
        /\ \/ /\ p[1] = q[1]
              /\ s[1] = p[1]
              /\ (p[2] < s[2] /\ s[2] < q[2]) \/ (q[2] < s[2] /\ s[2] < p[2])
           \/ /\ p[2] = q[2]
              /\ s[2] = p[2]
              /\ (p[1] < s[1] /\ s[1] < q[1]) \/ (q[1] < s[1] /\ s[1] < p[1])}

(* The checks of the last call that do not depend on the shape of the move:
   the mover belongs to the player to move, the destination does not hold a
   piece of the mover's colour, the atomic rules of the engine pass and the
   game is in progress. *)
NonShapeChecksPass ==
    /\ ncalls > 0
    /\ Mover # 0
    /\ ColourOf(Mover) = pre.current_player
    /\ ~SameColour(Mover, Target)
    /\ IF impl = "ChessVar"
       THEN CV_check_if_valid_atomic_move(pre.board, Mover, To[2], To[1])
       ELSE ACG_check_if_valid_atomic_move(pre.board, Mover, To[2], To[1])
    /\ pre.game_state = "UNFINISHED"

(* Source and destination share exactly one of row and column, and every
   square strictly between them is empty. *)
RookRule ==
    /\ (From[1] = To[1]) # (From[2] = To[2])
    /\ \A s \in Between(From, To) : At(pre.board, s) = 0

(* C20: when all non-shape checks pass, a Rook move is accepted exactly when
   source and destination share exactly one of row or column and every
   square strictly between them is empty. *)
C20_RookRule ==
    (NonShapeChecksPass /\ Mover \in {BR, WR}) => (ret <=> RookRule)

(* A Rook travels over at least one empty square and the move is accepted. *)
C20_Witness ==
    /\ NonShapeChecksPass
    /\ Mover \in {BR, WR}
    /\ Between(From, To) # {}
    /\ RookRule
    /\ ret
    /\ At(board, To) = Mover

(* The squares strictly between p and q on a shared diagonal. *)
BetweenDiag(p, q) ==
    {s \in Coords :
        /\ (p[1] < s[1] /\ s[1] < q[1]) \/ (q[1] < s[1] /\ s[1] < p[1])
        /\ (p[2] < s[2] /\ s[2] < q[2]) \/ (q[2] < s[2] /\ s[2] < p[2])
        /\ abs(s[1] - p[1]) = abs(s[2] - p[2])}

(* Source and destination lie on one diagonal, differ, and every square
   strictly between them is empty. *)
BishopRule ==
    /\ RowDist = ColDist
    /\ RowDist # 0
    /\ \A s \in BetweenDiag(From, To) : At(pre.board, s) = 0

(* C21: when all non-shape checks pass, a Bishop move is accepted exactly
   when |row difference| = |column difference| # 0 and every square strictly
   between source and destination on that diagonal is empty. *)
C21_BishopRule ==
    (NonShapeChecksPass /\ Mover \in {BB, WB}) => (ret <=> BishopRule)

(* A Bishop travels over at least one empty square and the move is accepted. *)
C21_Witness ==
    /\ NonShapeChecksPass
    /\ Mover \in {BB, WB}
    /\ BetweenDiag(From, To) # {}
    /\ BishopRule
    /\ ret
    /\ At(board, To) = Mover

(* The Rook and the Bishop of the colour of piece x. *)
RookOf(x) == IF White(x) THEN WR ELSE BR
BishopOf(x) == IF White(x) THEN WB ELSE BB

(* Whether the engine would accept the last call with piece x standing on
   the source square. *)
AcceptsAs(x) ==
    LET g == [pre EXCEPT !.board[From[1]][From[2]] = x]
    IN  IF impl = "ChessVar"
        THEN CV_accepts(g, x, From[2], From[1], To[2], To[1])
        ELSE ACG_validate_move(g, x, From[1], From[2], To[1], To[2])

(* C22: when all non-shape checks pass, a Queen move is accepted exactly when
   the same move would be accepted for a Rook or for a Bishop of her colour
   standing on the source square, that is when it satisfies the Rook rule or
   the Bishop rule. *)
C22_QueenRule ==
    (NonShapeChecksPass /\ Mover \in {BQ, WQ})
        => /\ ret <=> (AcceptsAs(RookOf(Mover)) \/ AcceptsAs(BishopOf(Mover)))
           /\ ret <=> (RookRule \/ BishopRule)

(* A Queen travels over at least one empty square along a diagonal and the
   move is accepted as the Bishop's would be. *)
C22_Witness ==
    /\ NonShapeChecksPass
    /\ Mover \in {BQ, WQ}
    /\ BetweenDiag(From, To) # {}
    /\ AcceptsAs(BishopOf(Mover))
    /\ ~AcceptsAs(RookOf(Mover))
    /\ ret
    /\ At(board, To) = Mover

(* C23: when all non-shape checks pass, a Knight move is accepted exactly
   when (|row difference|, |column difference|) is (1,2) or (2,1), whatever
   stands on any other square. *)
C23_KnightRule ==
    (NonShapeChecksPass /\ Mover \in {BH, WH})
        => (ret <=> <<RowDist, ColDist>> \in {<<1, 2>>, <<2, 1>>})

(* b1 to c3 from the starting position, over the pawns on b2 and c2. *)
C23_Witness ==
    /\ ncalls = 1
    /\ sq_from = <<"b", "1">>
    /\ sq_to = <<"c", "3">>
    /\ At(pre.board, <<6, 1>>) = WP
    /\ At(pre.board, <<6, 2>>) = WP
    /\ ret
    /\ At(board, To) = WH

(* C24: when it is the turn of the King's owner and the game is in progress,
   a King move is accepted exactly when the destination is empty, the row
   and column differences are at most 1 and source and destination differ. *)
C24_KingRule ==
    (/\ ncalls > 0
     /\ Mover \in {BK, WK}
     /\ ColourOf(Mover) = pre.current_player
     /\ pre.game_state = "UNFINISHED")
        => (ret <=> (Target = 0 /\ RowDist <= 1 /\ ColDist <= 1 /\ From # To))

(* A King steps onto an adjacent empty square. *)
C24_Witness ==
    /\ ncalls > 0
    /\ Mover \in {BK, WK}
    /\ ColourOf(Mover) = pre.current_player
    /\ pre.game_state = "UNFINISHED"
    /\ Target = 0
    /\ Near(From, To)
    /\ ret
    /\ At(board, To) = Mover

(* C25: a successful move onto an empty square leaves the source empty, puts
   the moved piece on the destination and leaves every other square as it
   was. *)
C25_OrdinaryMoveEffect ==
    (Accepted /\ Target = 0)
        => /\ At(board, From) = 0
           /\ At(board, To) = Mover
           /\ \A q \in Coords \ {From, To} : At(board, q) = At(pre.board, q)

(* A piece has moved onto an empty square. *)
C25_Witness ==
    /\ Accepted
    /\ Target = 0
    /\ Mover # 0
    /\ From # To
    /\ At(board, To) = Mover
    /\ At(board, From) = 0

(* The number of squares of board b that hold piece k. *)
Count(b, k) == Cardinality({q \in Coords : At(b, q) = k})

(* C26: in every state reachable from a new game the board holds at most one
   White King and at most one Black King. *)
C26_OneKingPerColour ==
    Count(board, WK) <= 1 /\ Count(board, BK) <= 1

(* Both Kings have left their starting squares and both are on the board. *)
C26_Witness ==
    /\ nmoves > 0
    /\ At(board, <<0, 4>>) # BK
    /\ At(board, <<7, 4>>) # WK
    /\ Count(board, WK) = 1
    /\ Count(board, BK) = 1

(* The standard chess layout: Black back rank on row 0, Black pawns on row
   1, rows 2 to 5 empty, White pawns on row 6, White back rank on row 7. *)
BackRank(rook, knight, bishop, queen, king) ==
    <<rook, knight, bishop, queen, king, bishop, knight, rook>>

StandardLayout ==
    [r \in Idx |-> [c \in Idx |->
        CASE r = 0 -> BackRank(BR, BH, BB, BQ, BK)[c + 1]
          [] r = 1 -> BP
          [] r = 6 -> WP
          [] r = 7 -> BackRank(WR, WH, WB, WQ, WK)[c + 1]
          [] OTHER -> 0]]

(* C27: a new game of either engine starts in the standard layout, with the
   Kings on column 4, WHITE to move and the state UNFINISHED; the two
   engines start from the same board. *)
C27_NewGame ==
    /\ ncalls = 0 =>
            /\ board = StandardLayout
            /\ At(board, <<0, 4>>) = BK
            /\ At(board, <<7, 4>>) = WK
            /\ current_player = "WHITE"
            /\ game_state = "UNFINISHED"
    /\ CV_NewGame = NewGame

(* A ChessVar game before its first call. *)
C27_Witness ==
    /\ impl = "ChessVar"
    /\ ncalls = 0
    /\ nmoves = 0
    /\ Game = CV_NewGame

(* C28: from the starting position make_move("e2", "e4") succeeds; then e2
   is empty, e4 holds a White pawn, every other square is as in the starting
   layout, the current player is BLACK and the state is UNFINISHED. *)
C28_E2E4 ==
    (ncalls = 1 /\ sq_from = <<"e", "2">> /\ sq_to = <<"e", "4">>)
        => /\ ret
           /\ At(board, <<6, 4>>) = 0
           /\ At(board, <<4, 4>>) = WP
           /\ \A q \in Coords \ {<<6, 4>>, <<4, 4>>} : At(board, q) = At(StandardLayout, q)
           /\ current_player = "BLACK"
           /\ game_state = "UNFINISHED"

(* The first call of a game is make_move("e2", "e4"). *)
C28_Witness ==
    /\ ncalls = 1
    /\ pre.board = StandardLayout
    /\ sq_from = <<"e", "2">>
    /\ sq_to = <<"e", "4">>
    /\ ret
    /\ nmoves = 1

(* A square string made of a file letter a..h, in either case, and a rank
   digit 1..8. *)
WellFormed(text) == Len(text) = 2 /\ lower_ch(text[1]) \in Files /\ text[2] \in Ranks

(* C29: get_piece_type(row, column) fails for every coordinate with row or
   column outside 0..7, negative values included, and so never returns the
   content of some other square. *)
C29_DefensiveAccessor ==
    (/\ probe.op = "get_piece_type"
     /\ ~(probe.row \in Idx /\ probe.column \in Idx))
        => probe.raised

(* C30: validate_input rejects a request exactly when one of its two squares
   is malformed; a request made of two well-formed squares is not rejected
   and reaches make_move. *)
C30_BoundaryValidation ==
    probe.op = "validate_input" =>
        /\ (probe.result # "None")
               <=> ~(WellFormed(probe.start_pos) /\ WellFormed(probe.end_pos))
        /\ (WellFormed(probe.start_pos) /\ WellFormed(probe.end_pos))
               => probe.made_move

(* The file letters and rank digits in order, and the coordinate the
   notation stands for: column = index of the letter (a = 0 .. h = 7), row =
   8 - rank (rank 8 is row 0, rank 1 is row 7). *)
FileSeq == <<"a", "b", "c", "d", "e", "f", "g", "h">>
RankSeq == <<"1", "2", "3", "4", "5", "6", "7", "8">>
ColumnOf(ch) == (CHOOSE i \in 1 .. 8 : FileSeq[i] = ch) - 1
RowOf(ch) == 8 - (CHOOSE i \in 1 .. 8 : RankSeq[i] = ch)
Expect(square) == <<RowOf(square[2]), ColumnOf(square[1])>>

(* The squares whose content the last call changed. *)
Changed == {q \in Coords : At(board, q) # At(pre.board, q)}

(* C31: every well-formed notation is decoded to column = index of the file
   letter and row = 8 - rank, by parse_square_notation and by make_move of
   both engines (an accepted move of a piece onto an empty square changes
   exactly the two decoded squares), and the decoding is a bijection between
   the 64 notations and the 64 coordinates. *)
C31_NotationDecoding ==
    /\ ncalls = 0 =>
            /\ \A sq \in Squares : parse_square_notation(sq) = Expect(sq)
            /\ {parse_square_notation(sq) : sq \in Squares} = Coords
            /\ Cardinality(Squares) = 64
            /\ Cardinality(Coords) = 64
    /\ ncalls > 0 =>
            /\ From = Expect(sq_from)
            /\ To = Expect(sq_to)
            /\ (From = To) <=> (sq_from = sq_to)
            /\ (/\ ret
                /\ At(pre.board, Expect(sq_from)) # 0
                /\ At(pre.board, Expect(sq_to)) = 0)
                   => Changed = {Expect(sq_from), Expect(sq_to)}

(* g1 to f3 is accepted: the Knight leaves row 7, column 6 for row 5,
   column 5. *)
C31_Witness ==
    /\ Accepted
    /\ sq_from = <<"g", "1">>
    /\ sq_to = <<"f", "3">>
    /\ Changed = {<<7, 6>>, <<5, 5>>}
    /\ At(board, <<5, 5>>) = WH

(* Two distinct squares on a common row, column or diagonal, and the squares
   strictly between them. *)
Aligned(p, q) ==
    /\ p # q
    /\ \/ p[1] = q[1]
       \/ p[2] = q[2]
       \/ abs(p[1] - q[1]) = abs(p[2] - q[2])
BetweenAll(p, q) == Between(p, q) \cup BetweenDiag(p, q)

(* The path check of engine i from p to q on board b. *)
PathCheck(i, b, p, q) ==
    IF p[1] = q[1] \/ p[2] = q[2]
    THEN IF i = "ChessVar"
         THEN CV_check_horizontal_vertical_move(b, p[2], p[1], q[2], q[1])
         ELSE ACG_check_horizontal_vertical_move(b, p[2], p[1], q[2], q[1])
    ELSE IF i = "ChessVar"
         THEN CV_check_diagonal_move(b, p[2], p[1], q[2], q[1])
         ELSE ACG_check_diagonal_move(b, p[2], p[1], q[2], q[1])

(* Board b with x written on the squares p and q. *)
WithEnds(b, p, q, x) == [[b EXCEPT ![p[1]][p[2]] = x] EXCEPT ![q[1]][q[2]] = x]

(* C32: for two distinct squares A and B on a common row, column or
   diagonal, the path check from A to B and the one from B to A both answer
   'clear' exactly when every square strictly between A and B is empty,
   whatever stands on A and on B. *)
C32_PathSymmetry ==
    (ncalls > 0 /\ Aligned(From, To)) =>
        LET clear == \A q \in BetweenAll(From, To) : At(pre.board, q) = 0
        IN  \A i \in Impls :
               /\ PathCheck(i, pre.board, From, To) = clear
               /\ PathCheck(i, pre.board, To, From) = clear
               /\ \A x \in {EMPTY_SQUARE, WQ, BP} :
                      /\ PathCheck(i, WithEnds(pre.board, From, To, x), From, To) = clear
                      /\ PathCheck(i, WithEnds(pre.board, From, To, x), To, From) = clear

(* Two occupied squares three or more apart with nothing between them. *)
C32_Witness ==
    /\ ncalls > 0
    /\ Aligned(From, To)
    /\ Cardinality(BetweenAll(From, To)) >= 2
    /\ Mover # 0
    /\ Target # 0
    /\ \A q \in BetweenAll(From, To) : At(pre.board, q) = 0
    /\ \A i \in Impls : PathCheck(i, pre.board, From, To) /\ PathCheck(i, pre.board, To, From)

(* C33: the two engines are behaviourally equivalent: on the same game and
   the same well-formed call they return the same boolean and leave the same
   board, current player and game state. *)
C33_EngineEquivalence ==
    ncalls > 0 =>
        CV_make_move(pre, sq_from, sq_to) = ACG_make_move(pre, sq_from, sq_to)

(* The piece values, and the number of occupied squares of board b. *)
Pieces == {BR, BH, BB, BQ, BK, BP, WR, WH, WB, WQ, WK, WP}
Total(b) == Cardinality({q \in Coords : At(b, q) # 0})

(* The count of each (colour, kind) does not grow over the last call. *)
C34_CountsNeverIncrease ==
    ncalls > 0 => \A k \in Pieces : Count(board, k) <= Count(pre.board, k)

(* A successful move onto an empty square keeps every count. *)
C34_OrdinaryKeepsCounts ==
    (Accepted /\ Target = 0) => \A k \in Pieces : Count(board, k) = Count(pre.board, k)

(* A successful capture removes at least the mover and the captured piece. *)
C34_CaptureRemovesTwo ==
    Capture => Total(board) <= Total(pre.board) - 2

(* C34: over every make_move call the count of each (colour, kind) never
   increases, a non-capturing move keeps every count, and a capturing move
   lowers the total number of pieces by at least two. *)
C34_NoPieceCreated ==
    C34_CountsNeverIncrease /\ C34_OrdinaryKeepsCounts /\ C34_CaptureRemovesTwo

(* The last event was a click in which square_clicked called make_move. *)
GuiCalled == gui.event = "click" /\ gui.outcome \in {"moved", "not_allowed"}

(* The last event was a second click: a square was selected when it came. *)
SecondClick == gui.event = "click" /\ gui.was_selected # None

(* C35: whenever square_clicked calls make_move the game is UNFINISHED, the
   source is the square selected before the click, it holds a non-empty
   piece of the player to move, and the destination is another square (the
   one clicked); and after every second click nothing is selected. *)
C35_WellFormedRequests ==
    /\ GuiCalled =>
          /\ ncalls > 0
          /\ pre.game_state = "UNFINISHED"
          /\ sq_from = notation(gui.was_selected[1], gui.was_selected[2])
          /\ From = gui.was_selected
          /\ Mover # 0
          /\ ColourOf(Mover) = pre.current_player
          /\ To = <<gui.row, gui.col>>
          /\ To # From
    /\ SecondClick => gui.selected_square = None
    /\ gui.selected_square # None =>
          /\ game_state = "UNFINISHED"
          /\ At(board, gui.selected_square) # 0
          /\ ColourOf(At(board, gui.selected_square)) = current_player

(* A move request refused by the game, made by Black off the game line after
   'New Game' was pressed. *)
C35_Witness ==
    /\ GuiCalled
    /\ gui.outcome = "not_allowed"
    /\ gui.new_games = 1
    /\ pre.current_player = "BLACK"
    /\ Mover = BP
    /\ gui.selected_square = None

(* The step is a press of 'New Game'. *)
NewGameStep == gui'.new_games # gui.new_games

(* C36: once the game is WHITE_WON or BLACK_WON, every step other than a
   press of 'New Game' (a square click, 'Reload UI') leaves the board, the
   player to move, the game state and the selection as they are and makes
   no make_move call; a press of 'New Game' gives the starting layout with
   WHITE to move, state UNFINISHED and nothing selected. *)
C36_GameOverLock ==
    [][Terminal(game_state) =>
          /\ ~NewGameStep =>
                /\ UNCHANGED <<board, current_player, game_state>>
                /\ gui'.selected_square = gui.selected_square
                /\ ncalls' = ncalls
                /\ gui'.event = "click" => gui'.outcome = "game_over"
          /\ NewGameStep =>
                /\ board' = CV_StartBoard
                /\ current_player' = "WHITE"
                /\ game_state' = "UNFINISHED"
                /\ gui'.selected_square = None]_vars

(* A square was clicked in a finished game in which 'New Game' can still be
   pressed. *)
C36_Witness ==
    /\ Terminal(game_state)
    /\ gui.event = "click"
    /\ gui.outcome = "game_over"
    /\ gui.new_games < MaxNewGame

(* The square clicked in the last event. *)
Clicked == <<gui.row, gui.col>>

(* C37: for every coordinate (row, column) of the board, the notation the
   window builds is a well-formed square that decodes back to (row, column),
   and distinct coordinates get distinct notations (a fact of the operators
   alone, evaluated once, before the first event); so a move requested by
   two clicks acts on the two squares clicked: an accepted move onto an
   empty square changes exactly those two and carries the piece of the
   first to the second, an accepted capture empties both, and a refused
   request changes nothing. *)
C37_CoordinateRoundTrip ==
    /\ gui.event = "none" =>
          /\ \A row \in Idx, col \in Idx :
                /\ notation(row, col) \in Squares
                /\ notation(row, col) = <<FileSeq[col + 1], RankSeq[8 - row]>>
                /\ parse_square_notation(notation(row, col)) = <<row, col>>
                /\ Expect(notation(row, col)) = <<row, col>>
          /\ Cardinality({notation(q[1], q[2]) : q \in Coords}) = 64
    /\ GuiCalled =>
          /\ Expect(sq_from) = gui.was_selected
          /\ Expect(sq_to) = Clicked
          /\ (gui.outcome = "moved" /\ At(pre.board, Clicked) = 0) =>
                /\ Changed = {gui.was_selected, Clicked}
                /\ At(board, Clicked) = At(pre.board, gui.was_selected)
                /\ At(board, gui.was_selected) = 0
          /\ (gui.outcome = "moved" /\ At(pre.board, Clicked) # 0) =>
                /\ At(board, Clicked) = 0
                /\ At(board, gui.was_selected) = 0
          /\ gui.outcome = "not_allowed" => board = pre.board

(* The knight on g1, at (7, 6), was clicked and then (5, 5), f3; it moved. *)
C37_Witness ==
    /\ GuiCalled
    /\ gui.outcome = "moved"
    /\ gui.was_selected = <<7, 6>>
    /\ Clicked = <<5, 5>>
    /\ sq_from = <<"g", "1">>
    /\ sq_to = <<"f", "3">>
    /\ At(board, <<5, 5>>) = WH
    /\ At(board, <<7, 6>>) = 0

(* The children that are running. *)
RunningChildren == {i \in DOMAIN world.children : world.children[i] = "running"}

(* At most one child runs, it is the tracked one, and when run has returned
   no child is tracked or running. *)
C38_OneChild ==
    /\ Cardinality(RunningChildren) <= 1
    /\ \A i \in RunningChildren : reloader.process = <<i>>
    /\ reloader.pc = "done" => (reloader.process = None /\ RunningChildren = {})

(* A child is started only when no child is tracked or running. *)
C38_StopBeforeStart ==
    [][Len(world'.children) > Len(world.children) => (reloader.process = None /\ RunningChildren = {})]_vars

(* A modification of f made while the loop runs is followed by the start of
   a new child, unless the loop is left first. *)
C38_RestartFollows ==
    \A f \in WatchSet : (InLoop /\ world.pending[f]) ~> (~world.pending[f] \/ ~InLoop)

(* C38: while run is looping, every increase of a watched file's
   modification time is eventually followed by a restart of the child (the
   loop being left by Ctrl-C or by the child's exit excepted), also when
   several watched files change between two polls; a restart stops the
   previous child before it starts the new one, so that at most one child
   runs and is tracked; and when run has returned, process is None. *)
C38_HotReload ==
    /\ []C38_OneChild
    /\ C38_StopBeforeStart
    /\ C38_RestartFollows

(* Both watched files were modified between two polls and the child has
   been restarted twice, the second child stopped before the third began;
   the loop is still running. *)
C38_Witness ==
    /\ InLoop
    /\ reloader.restarts = 2
    /\ world.touches = 2
    /\ world.mtime["chess_gui.py"] = 2
    /\ world.mtime["ChessVar.py"] = 3
    /\ world.children = <<"stopped", "stopped", "running">>
    /\ reloader.process = <<3>>

====
